---- MODULE Spec2Model ----
(***************************************************************************)
(* Frame-stepped model of the animated-fox demo (src/src/main.rs): the     *)
(* four Update systems setup_scene_once_loaded, keyboard_animation_control,*)
(* follow_fox and move_fox, run once per frame in an order the host        *)
(* schedule picks, over the engine state they read and write (animation    *)
(* player, animation transitions, transforms, keyboard input).             *)
(*                                                                         *)
(* Numbers.  Times are integers: frame deltas in milliseconds, clip seek   *)
(* times in microseconds.  The character's position, its movement          *)
(* direction and the playback speed are single-precision numbers, computed *)
(* bit for bit as the program computes them.  Yaw is in eighths of a turn  *)
(* (pi/4); the character's forward axis and the camera's offset from the   *)
(* character are exact numbers a + b * (sqrt 2)/2, in thousandths of a     *)
(* world unit.  Blend weights are in ten-thousandths.                      *)
(***************************************************************************)
EXTENDS Integers, Sequences, FiniteSets, TLC

VARIABLES
    frame,              \* number of frames begun
    phase,              \* "idle" between frames, "update" inside the Update schedule
    pending,            \* Update systems that have not yet run in this frame
    dt,                 \* Time::delta of this frame, ms
    pressed,            \* ButtonInput::pressed
    just_pressed,       \* ButtonInput::just_pressed
    player,             \* AnimationPlayer of the fox scene: [exists, added, active]
    transitions,        \* AnimationTransitions component: [attached, main, list]
    deferred,           \* Commands queued by setup_scene_once_loaded, not yet applied
    current_animation,  \* Local<usize> of keyboard_animation_control
    fox,                \* Transform of the Fox entity: [translation, yaw]
    fox_entities,       \* number of entities that carry the Fox marker
    camera,             \* Transform of the FollowFox camera: [translation, look]
    panicked,           \* an unwrap or an index failed in some system
    pre,                \* history: the state at the beginning of the current frame
    clock,              \* history: sum of the frame deltas so far, ms
    enterHist,          \* history: current_animation before each of the last NumClips
                        \* frames in which Enter was just pressed
    cycleHist,          \* history: current_animation before each of the last NumClips
                        \* Enter presses the controller acted on
    heldHist,           \* history: <<K>> while the movement keys held have been K in every
                        \* frame so far, <<>> otherwise
    enterHeld           \* history: while Enter is down, <<k, i, c>>: it has been down for k
                        \* frames in a row, current_animation was i when the frame of the
                        \* press began, and c tells whether the controller then had a clip
                        \* to command; <<>> while Enter is up

vars == <<frame, phase, pending, dt, pressed, just_pressed, player, transitions,
          deferred, current_animation, fox, fox_entities, camera, panicked, pre, clock,
          enterHist, cycleHist, heldHist, enterHeld>>

----------------------------------------------------------------------------
(* Bounds of the model *)

MaxMoveFrames == 2
MaxAnimFrames == 4
MaxCycleFrames == 7
MaxAnimKeys == 1
MaxSpeedSteps == 2
MaxFoxes == 2
MaxFollowFrames == 2
MaxHoldFrames == 5
MaxChordFrames == 5
MaxSpeedFrames == 5
MaxStrideFrames == 10

----------------------------------------------------------------------------
(* Program constants *)

MoveSpeed == 5
CameraOffsetY == 200
CameraOffsetZ == -300
NumClips == 3
TransitionMillis == 250
SeekStepMicros == 100000

MoveKeys == {"KeyW", "KeyA", "KeyS", "KeyD"}
AnimKeys == {"Space", "ArrowUp", "ArrowDown", "ArrowLeft", "ArrowRight", "Enter",
             "Digit1", "Digit3", "Digit5", "KeyL"}
Systems == {"setup_scene_once_loaded", "keyboard_animation_control",
            "follow_fox", "move_fox"}

----------------------------------------------------------------------------
(***************************************************************************)
(* Single-precision numbers.  <<m, e>> with 2^23 <= |m| < 2^24 stands for  *)
(* m * 2^(e - 23); <<0, 0>> is zero (the sign of a zero is not kept).      *)
(* Every operation rounds its exact result to 24 bits, ties to even.       *)
(***************************************************************************)

F32Limb == 2^12
F32Zero == <<0, 0>>
F32One == <<2^23, 0>>

Abs(n) == IF n < 0 THEN 0 - n ELSE n
SignInt(n) == IF n > 0 THEN 1 ELSE IF n < 0 THEN -1 ELSE 0
F32Neg(a) == <<0 - a[1], a[2]>>

\* the position of the leading bit of n > 0
RECURSIVE Log2(_)
Log2(n) ==
    IF n >= 2^16 THEN 16 + Log2(n \div 2^16)
    ELSE IF n >= 2^4 THEN 4 + Log2(n \div 2^4)
    ELSE IF n >= 2 THEN 1 + Log2(n \div 2)
    ELSE 0

\* the single-precision number nearest to n * 2^(e - 23), or to a value just above
\* it in magnitude when sticky (bits below the last bit of n were dropped)
F32Norm(n, e, sticky) ==
    IF n = 0 THEN F32Zero
    ELSE LET p == Log2(Abs(n))
             sh == p - 23
             q == Abs(n) \div 2^sh
             r == Abs(n) % 2^sh
             half == 2^(sh - 1)
             m == IF r > half \/ (r = half /\ (sticky \/ q % 2 = 1)) THEN q + 1 ELSE q
         IN  IF sh <= 0 THEN <<n * 2^(0 - sh), e + sh>>
             ELSE IF m = 2^24 THEN <<SignInt(n) * 2^23, e + sh + 1>>
             ELSE <<SignInt(n) * m, e + sh>>

\* an integer as f32
F32FromInt(n) == F32Norm(n, 23, FALSE)

\* f32 multiplication of two positive numbers: the exact 48-bit product of the two
\* significands, computed in 12-bit limbs, rounded to 24 bits, ties to even
F32Mul(a, b) ==
    LET ah == a[1] \div F32Limb
        al == a[1] % F32Limb
        bh == b[1] \div F32Limb
        bl == b[1] % F32Limb
        mid == ah * bl + al * bh
        lowsum == (mid % F32Limb) * F32Limb + al * bl
        lo == lowsum % 2^24
        hi == ah * bh + mid \div F32Limb + lowsum \div 2^24
        wide == hi >= 2^23
        q == IF wide THEN hi ELSE 2 * hi + lo \div 2^23
        r == IF wide THEN lo ELSE lo % 2^23
        half == IF wide THEN 2^23 ELSE 2^22
        e == IF wide THEN a[2] + b[2] + 1 ELSE a[2] + b[2]
        m == IF r > half \/ (r = half /\ q % 2 = 1) THEN q + 1 ELSE q
    IN  IF m = 2^24 THEN <<2^23, e + 1>> ELSE <<m, e>>

\* f32 multiplication with signs and zero
F32Times(a, b) ==
    IF a[1] = 0 \/ b[1] = 0 THEN F32Zero
    ELSE LET p == F32Mul(<<Abs(a[1]), a[2]>>, <<Abs(b[1]), b[2]>>)
         IN  <<SignInt(a[1]) * SignInt(b[1]) * p[1], p[2]>>

\* f32 addition: the operand with the smaller exponent is shifted right under three
\* extra bits and a sticky bit, the sum is rounded once
F32Add(a, b) ==
    IF a[1] = 0 THEN b
    ELSE IF b[1] = 0 THEN a
    ELSE LET big == IF a[2] >= b[2] THEN a ELSE b
             small == IF a[2] >= b[2] THEN b ELSE a
             d == big[2] - small[2]
             shifted == (Abs(small[1]) * 8) \div 2^d
             lost == (Abs(small[1]) * 8) % 2^d # 0
             sum == big[1] * 8 + SignInt(small[1]) * shifted
             \* the exact sum is further from zero than sum when the part lost has
             \* the sign of the sum, nearer to zero when it has the other sign
             n == IF lost /\ SignInt(small[1]) # SignInt(sum) THEN sum - SignInt(sum)
                  ELSE sum
         IN  IF d > 26 THEN big ELSE F32Norm(n, big[2] - 3, lost)

F32Sub(a, b) == F32Add(a, F32Neg(b))

\* long division of significands: k more groups of five quotient bits of r / m onto
\* q, for a remainder r < m
RECURSIVE DivBits(_, _, _, _)
DivBits(r, m, q, k) ==
    IF k = 0 THEN <<q, r>>
    ELSE DivBits((r * 2^5) % m, m, q * 2^5 + (r * 2^5) \div m, k - 1)

\* f32 division by a non-zero number: the quotient of the significands to 25 binary
\* places, rounded once
F32Div(a, b) ==
    IF a[1] = 0 THEN F32Zero
    ELSE LET qr == DivBits(Abs(a[1]) % Abs(b[1]), Abs(b[1]), Abs(a[1]) \div Abs(b[1]), 5)
         IN  F32Norm(SignInt(a[1]) * SignInt(b[1]) * qr[1], a[2] - b[2] - 2, qr[2] # 0)

\* digit-by-digit square root: the bit pairs i .. 24 of M * 2^22 onto the root q
\* with remainder r
RECURSIVE SqrtBits(_, _, _, _)
SqrtBits(M, q, r, i) ==
    IF i > 24 THEN <<q, r>>
    ELSE LET pair == IF i <= 13 THEN (M \div 4^(13 - i)) % 4 ELSE 0
             rest == 4 * r + pair
             trial == 4 * q + 1
         IN  IF rest >= trial THEN SqrtBits(M, 2 * q + 1, rest - trial, i + 1)
             ELSE SqrtBits(M, 2 * q, rest, i + 1)

\* f32 square root of a number that is not negative
F32Sqrt(a) ==
    IF a[1] = 0 THEN F32Zero
    ELSE LET M == IF a[2] % 2 = 0 THEN 2 * a[1] ELSE 4 * a[1]
             qr == SqrtBits(M, 0, 0, 1)
             m == IF qr[2] > qr[1] THEN qr[1] + 1 ELSE qr[1]
         IN  IF m = 2^24 THEN <<2^23, a[2] \div 2 + 1>> ELSE <<m, a[2] \div 2>>

\* x < y for two positive single-precision numbers
F32Less(x, y) == x[2] < y[2] \/ (x[2] = y[2] /\ x[1] < y[1])

\* the distance of two single-precision numbers of the same sign in units of the
\* last place of the one with the smaller exponent (2^24 when the exponents differ
\* by more than one)
F32Ulps(x, y) ==
    IF x[2] = y[2] THEN Abs(x[1] - y[1])
    ELSE IF x[2] = y[2] + 1 THEN Abs(2 * x[1] - y[1])
    ELSE IF y[2] = x[2] + 1 THEN Abs(2 * y[1] - x[1])
    ELSE 2^24

\* Duration::as_secs_f32 of a frame delta in milliseconds, as Time::delta_seconds
\* returns it: the whole seconds plus the nanoseconds divided by 10^9, all in f32
DeltaSeconds(ms) ==
    F32Add(F32FromInt(ms \div 1000),
           F32Div(F32FromInt((ms % 1000) * 10^6), F32FromInt(10^9)))

\* delta * speed, in microseconds, for a delta in milliseconds
Advance(deltaMs, speed) ==
    LET scaled == deltaMs * (speed[1] \div F32Limb)
                    + (deltaMs * (speed[1] % F32Limb)) \div F32Limb
    IN  IF speed[2] <= 8 THEN (scaled * 125) \div 2^(8 - speed[2])
        ELSE (scaled * 125) * 2^(speed[2] - 8)

----------------------------------------------------------------------------
(* Vectors of single-precision numbers (Vec3) *)

Vec3(x, y, z) == <<x, y, z>>
Vec3Zero == Vec3(F32Zero, F32Zero, F32Zero)
\* Vec3 + Vec3 and Vec3 * f32, componentwise
VAdd(u, v) == <<F32Add(u[1], v[1]), F32Add(u[2], v[2]), F32Add(u[3], v[3])>>
VScale(u, k) == <<F32Times(u[1], k), F32Times(u[2], k), F32Times(u[3], k)>>
\* Vec3::dot and Vec3::length
Dot(u, v) ==
    F32Add(F32Add(F32Times(u[1], v[1]), F32Times(u[2], v[2])), F32Times(u[3], v[3]))
Length(u) == F32Sqrt(Dot(u, u))

----------------------------------------------------------------------------
(* Exact numbers a + b * (sqrt 2)/2, in thousandths of a world unit, for   *)
(* the facing of the character and the offset of the camera from it        *)

R(a) == <<a, 0>>
RAdd(p, q) == <<p[1] + q[1], p[2] + q[2]>>
RNeg(p) == <<0 - p[1], 0 - p[2]>>
RScale(p, k) == <<p[1] * k, p[2] * k>>
\* p * q, doubled so that the result stays integral: s*s = 1/2
RMul2(p, q) == <<2 * p[1] * q[1] + p[2] * q[2], 2 * (p[1] * q[2] + p[2] * q[1])>>
\* twice the squared length of a vector of such numbers, as a number of the ring
LengthSquared2(u) == RAdd(RMul2(u[1], u[1]), RAdd(RMul2(u[2], u[2]), RMul2(u[3], u[3])))
\* vectors of such numbers, scaled and negated
RVScale(u, k) == <<RScale(u[1], k), RScale(u[2], k), RScale(u[3], k)>>
RVNeg(u) == <<RNeg(u[1]), RNeg(u[2]), RNeg(u[3])>>
\* the point p + o, for an f32 point p and an exact offset o from it
PointAt(p, o) == [at |-> p, offset |-> o]

MilliPerUnit == 10 * 100      \* thousandths of a world unit per world unit
MicrosPerMilli == 10 * 100    \* microseconds per millisecond
WeightOne == 100 * 100        \* weight 1.0, in ten-thousandths

----------------------------------------------------------------------------
(* Locomotion Controller: move_fox *)

Held(keys, k) == IF k \in keys THEN 1 ELSE 0

\* mutant: each key assigns its axis instead of adding to it (the later test wins)
RawDirectionAssigned(keys) ==
    Vec3(F32FromInt(IF "KeyD" \in keys THEN 1 ELSE 0 - Held(keys, "KeyA")),
         F32Zero,
         F32FromInt(IF "KeyS" \in keys THEN 1 ELSE 0 - Held(keys, "KeyW")))

\* the direction summed from the four held keys, before normalisation: each held
\* key adds or subtracts 1.0 on its axis, in the order W, S, A, D
RawDirection(keys) ==
    Vec3(F32Add(F32Sub(F32Zero, F32FromInt(Held(keys, "KeyA"))),
                F32FromInt(Held(keys, "KeyD"))),
         F32Zero,
         F32Add(F32Sub(F32Zero, F32FromInt(Held(keys, "KeyW"))),
                F32FromInt(Held(keys, "KeyS"))))

\* mutant: the direction is used as summed, without normalisation
NormalizeSkipped(d) == d

\* Vec3::normalize: the vector times the reciprocal of its length, in f32
Normalize(d) == VScale(d, F32Div(F32One, Length(d)))

\* the direction move_fox moves along, for every set of held movement keys: the
\* normalised sum where the sum is not zero, and the zero sum elsewhere
Directions ==
    [K \in {H \in SUBSET MoveKeys : RawDirection(H) # Vec3Zero} |-> Normalize(RawDirection(K))]
        @@ [K \in SUBSET MoveKeys |-> RawDirection(K)]
Direction(keys) == Directions[keys \cap MoveKeys]

\* f32::atan2(y, x) in eighths of a turn, for (x, y) on one of the eight
\* compass directions; atan2(+0, negative) is +pi
Atan2(y, x) ==
    CASE SignInt(y[1]) = 0 /\ SignInt(x[1]) >= 0 -> 0
      [] SignInt(y[1]) = 0 /\ SignInt(x[1]) < 0 -> 4
      [] SignInt(y[1]) > 0 /\ SignInt(x[1]) > 0 -> 1
      [] SignInt(y[1]) > 0 /\ SignInt(x[1]) = 0 -> 2
      [] SignInt(y[1]) > 0 /\ SignInt(x[1]) < 0 -> 3
      [] SignInt(y[1]) < 0 /\ SignInt(x[1]) > 0 -> -1
      [] SignInt(y[1]) < 0 /\ SignInt(x[1]) = 0 -> -2
      [] SignInt(y[1]) < 0 /\ SignInt(x[1]) < 0 -> -3

\* the yaw angle move_fox hands to Quat::from_rotation_y
FacingYaw(d) == 0 - Atan2(d[1], d[3])

\* mutant: the step is not scaled by the frame delta (a full second's worth each frame)
MoveFoxStepUnscaled(t, keys, delta) ==
    LET direction == Direction(keys)
    IN  [translation |-> VAdd(t.translation, VScale(direction, F32FromInt(MoveSpeed))),
         yaw |-> IF direction # Vec3Zero THEN FacingYaw(direction) ELSE t.yaw]

\* the transform move_fox leaves, given the held keys and the frame delta in ms
MoveFoxStep(t, keys, delta) ==
    LET direction == Direction(keys)
    IN  [translation |-> VAdd(t.translation,
                              VScale(VScale(direction, F32FromInt(MoveSpeed)),
                                     DeltaSeconds(delta))),
         yaw |-> IF direction # Vec3Zero THEN FacingYaw(direction) ELSE t.yaw]

----------------------------------------------------------------------------
(* Follow Camera Controller: follow_fox.  The camera's position is kept as *)
(* the character's position (f32) and the exact offset from it.            *)

Sin8(k) ==
    CASE k % 8 = 0 -> R(0)
      [] k % 8 = 1 -> <<0, 1>>
      [] k % 8 = 2 -> R(1)
      [] k % 8 = 3 -> <<0, 1>>
      [] k % 8 = 4 -> R(0)
      [] k % 8 = 5 -> <<0, -1>>
      [] k % 8 = 6 -> R(-1)
      [] k % 8 = 7 -> <<0, -1>>
Cos8(k) == Sin8(k + 2)

\* Quat::from_rotation_y(yaw).mul_vec3(Vec3::Z)
Forward(yaw) == Vec3(Sin8(yaw), R(0), Cos8(yaw))

\* mutant: the offset is applied along the world axes, whatever the fox's facing
FollowFoxStepWorldOffset(t) ==
    LET translation == PointAt(t.translation,
                               Vec3(R(0), R(CameraOffsetY * MilliPerUnit),
                                    R(CameraOffsetZ * MilliPerUnit)))
    IN  [translation |-> translation,
         look |-> RVNeg(translation.offset)]

\* the camera transform follow_fox leaves for the fox transform t; look is the
\* direction look_at aims along, from the camera to the fox: t.translation minus
\* the camera's translation
FollowFoxStep(t) ==
    LET fox_forward == Forward(t.yaw)
        camera_position == PointAt(t.translation,
                                   RVScale(fox_forward, CameraOffsetZ * MilliPerUnit))
        translation == PointAt(t.translation,
                               Vec3(camera_position.offset[1],
                                    R(CameraOffsetY * MilliPerUnit),
                                    camera_position.offset[3]))
    IN  [translation |-> translation,
         look |-> RVNeg(translation.offset)]

\* mutant: the first entity of the query is tracked when there are several
FollowFoxFirst(n, t, cam) == IF n >= 1 THEN FollowFoxStep(t) ELSE cam

\* follow_fox: fox_query.get_single() is Ok only when exactly one entity carries the
\* Fox marker; otherwise the camera transform is not written
FollowFox(n, t, cam) == IF n = 1 THEN FollowFoxStep(t) ELSE cam

\* move_fox: the loop runs once for every entity of the query, none if there is none
MoveFox(n, t, keys, delta) == IF n = 0 THEN t ELSE MoveFoxStep(t, keys, delta)

----------------------------------------------------------------------------
(***************************************************************************)
(* The animation engine as the program uses it: AnimationPlayer keeps its  *)
(* active animations in a map ordered by node index; AnimationTransitions  *)
(* keeps the main animation and the list of outgoing ones.                 *)

\* Animations.animations: the node indices graph.add_clips returns (the root is node 0)
Animations == [i \in 0 .. NumClips - 1 |-> i + 1]
NoNode == 0

\* duration of a clip of Fox.glb, microseconds (the asset is not part of the source)
ClipDuration(node) == 1000 * MicrosPerMilli

Forever == <<"Forever", 0>>
Never == <<"Never", 0>>
Count(n) == <<"Count", n>>

EmptyMap == [n \in {} |-> 0]
Put(m, k, v) == [n \in DOMAIN m \cup {k} |-> IF n = k THEN v ELSE m[n]]
MinOf(S) == CHOOSE n \in S : \A o \in S : n <= o

\* ActiveAnimation::default()
DefaultActiveAnimation ==
    [weight |-> WeightOne, repeat |-> Never, speed |-> F32One,
     seek_time |-> 0, completions |-> 0, paused |-> FALSE]

\* ActiveAnimation::replay: back to the start; the pause flag is not touched
Replay(a) == [a EXCEPT !.completions = 0, !.seek_time = 0]

SetRepeat(a, r) == [a EXCEPT !.repeat = r]
\* mutant: the speed is clamped to the range 0.8 .. 1.2
SetSpeedClamped(a, factor) ==
    LET v == F32Mul(a.speed, factor)
    IN  [a EXCEPT !.speed = IF F32Less(<<10066330, 0>>, v) THEN <<10066330, 0>>
                            ELSE IF F32Less(v, <<13421773, -1>>) THEN <<13421773, -1>>
                            ELSE v]

SetSpeed(a, factor) ==
    [a EXCEPT !.speed = F32Mul(a.speed, factor)]
SeekTo(a, t) == [a EXCEPT !.seek_time = t]
TogglePause(a) == [a EXCEPT !.paused = ~a.paused]

\* AnimationPlayer::start: the entry or a default one, replayed
Start(active, node) ==
    Put(active, node,
        Replay(IF node \in DOMAIN active THEN active[node] ELSE DefaultActiveAnimation))

\* AnimationPlayer::playing_animations().next(): the first entry of the ordered map
HasPlaying(active) == DOMAIN active # {}
FirstPlaying(active) == MinOf(DOMAIN active)

\* 1.0 / transition_duration.as_secs_f32(), as weight per millisecond
DeclinePerMilli(durationMs) ==
    IF durationMs = 0 THEN WeightOne ELSE WeightOne \div durationMs

\* AnimationTransitions::play: the old main animation, unless paused, becomes an
\* outgoing transition; the new one becomes main and is started
TransitionsPlay(t, active, node, durationMs) ==
    LET old == t.main
        push == old # NoNode /\ old \in DOMAIN active /\ ~active[old].paused
    IN  [transitions |->
            [t EXCEPT !.main = node,
                      !.list = IF push
                               THEN Append(t.list,
                                      [current_weight |-> active[old].weight,
                                       decline |-> DeclinePerMilli(durationMs),
                                       animation |-> old])
                               ELSE t.list],
         active |-> Start(active, node)]

\* AnimationTransitions::new()
NewTransitions == [attached |-> FALSE, main |-> NoNode, list |-> <<>>]

\* ActiveAnimation::is_finished
IsFinished(a) ==
    CASE a.repeat[1] = "Forever" -> FALSE
      [] a.repeat[1] = "Never" -> a.completions >= 1
      [] a.repeat[1] = "Count" -> a.completions >= a.repeat[2]

\* ActiveAnimation::update
Update(a, deltaMs, duration) ==
    IF IsFinished(a) THEN a
    ELSE
      LET seek == a.seek_time + Advance(deltaMs, a.speed)
          over == seek >= duration
          b == [a EXCEPT !.seek_time = seek,
                         !.completions = IF over THEN a.completions + 1 ELSE a.completions]
      IN  IF over /\ IsFinished(b) THEN b
          ELSE LET wrapped == IF seek >= duration THEN seek % duration ELSE seek
               IN  [b EXCEPT !.seek_time =
                        IF wrapped < 0 THEN wrapped + duration ELSE wrapped]

\* advance_animations: every active animation that is not paused is ticked
AdvanceAnimations(active, deltaMs) ==
    [n \in DOMAIN active |->
        IF active[n].paused THEN active[n]
        ELSE Update(active[n], deltaMs, ClipDuration(n))]

Max(a, b) == IF a >= b THEN a ELSE b

\* advance_transitions, from the most recent transition (index i) down to the first:
\* each outgoing animation takes its declining share of the remaining weight
RECURSIVE AdvanceList(_, _, _, _, _)
AdvanceList(list, active, remaining, i, deltaMs) ==
    IF i = 0 THEN [list |-> list, active |-> active, remaining |-> remaining]
    ELSE
      LET tr == list[i]
          cw == Max(tr.current_weight - tr.decline * deltaMs, 0)
          w == (cw * remaining) \div WeightOne
          here == tr.animation \in DOMAIN active
      IN  AdvanceList([list EXCEPT ![i].current_weight = cw],
                      IF here THEN [active EXCEPT ![tr.animation].weight = w] ELSE active,
                      IF here THEN remaining - w ELSE remaining,
                      i - 1, deltaMs)

AdvanceTransitions(t, active, deltaMs) ==
    LET r == AdvanceList(t.list, active, WeightOne, Len(t.list), deltaMs)
    IN  [transitions |-> [t EXCEPT !.list = r.list],
         active |-> IF t.main # NoNode /\ t.main \in DOMAIN r.active
                    THEN [r.active EXCEPT ![t.main].weight = r.remaining]
                    ELSE r.active]

\* expire_completed_transitions: a transition whose weight reached 0 is dropped
\* and its animation stopped (removed from the player)
RECURSIVE RetainLive(_)
RetainLive(list) ==
    IF list = <<>> THEN <<>>
    ELSE IF Head(list).current_weight <= 0 THEN RetainLive(Tail(list))
         ELSE <<Head(list)>> \o RetainLive(Tail(list))

ExpireCompletedTransitions(t, active) ==
    LET dead == {t.list[i].animation : i \in {j \in 1 .. Len(t.list) :
                                                 t.list[j].current_weight <= 0}}
    IN  [transitions |-> [t EXCEPT !.list = RetainLive(t.list)],
         active |-> [n \in DOMAIN active \ dead |-> active[n]]]

----------------------------------------------------------------------------
(* Animation Controller: setup_scene_once_loaded, keyboard_animation_control *)

SpeedUp == <<10066330, 0>>       \* 1.2 as f32: 0x99999A * 2^-23
SlowDown == <<13421773, -1>>     \* 0.8 as f32: 0xCCCCCD * 2^-24

\* mutant: the query without its Added filter yields the player in every frame
PlayerIsAddedAlways(p) == p.exists

\* Query<(Entity, &mut AnimationPlayer), Added<AnimationPlayer>> yields the player
PlayerIsAdded(p) == p.exists /\ p.added

\* setup_scene_once_loaded: the new player's clip 0 is started through a fresh
\* AnimationTransitions and looped; the component is inserted by a deferred command
SetupSceneOnceLoaded(p, queue) ==
    IF PlayerIsAdded(p)
    THEN LET r == TransitionsPlay(NewTransitions, p.active, Animations[0], 0)
         IN  [player |-> [p EXCEPT !.added = FALSE,
                                   !.active = [r.active EXCEPT ![Animations[0]] =
                                                   SetRepeat(@, Forever)]],
              deferred |-> Append(queue, r.transitions)]
    ELSE [player |-> [p EXCEPT !.added = FALSE], deferred |-> queue]

\* mutant: the query asks for the AnimationPlayer alone
QueryMatchesPlayerOnly(p, t) == p.exists

\* Query<(&mut AnimationPlayer, &mut AnimationTransitions)> yields the entity
QueryMatches(p, t) == p.exists /\ t.attached

\* player.animation_mut(index).unwrap(), and the instance written back
SetPlaying(st, index, inst) ==
    IF index \in DOMAIN st.active
    THEN [st EXCEPT !.active[index] = inst]
    ELSE [st EXCEPT !.panicked = TRUE]

\* mutant: the index wraps one step too late
NextAnimationIndexWrapsLate(cur) == (cur + 1) % (NumClips + 1)

\* mutant: the index is advanced without the modulo
NextAnimationIndexUnwrapped(cur) == cur + 1

\* (*current_animation + 1) % animations.animations.len()
NextAnimationIndex(cur) == (cur + 1) % NumClips

\* mutant: the clip looked up is that of the index before it is advanced
CycleClipStale(st) ==
    LET cur == NextAnimationIndex(st.current_animation)
        r == TransitionsPlay(st.transitions, st.active, Animations[st.current_animation],
                             TransitionMillis)
    IN  [st EXCEPT !.current_animation = cur,
                   !.transitions = r.transitions,
                   !.active = [r.active EXCEPT ![Animations[st.current_animation]] =
                                   SetRepeat(@, Forever)]]

\* the Enter branch: advance the index, cross-fade to that clip, loop it
CycleClip(st) ==
    LET cur == NextAnimationIndex(st.current_animation)
    IN  IF cur \notin DOMAIN Animations
        THEN [st EXCEPT !.current_animation = cur, !.panicked = TRUE]
        ELSE LET r == TransitionsPlay(st.transitions, st.active, Animations[cur],
                                      TransitionMillis)
             IN  [st EXCEPT !.current_animation = cur,
                            !.transitions = r.transitions,
                            !.active = [r.active EXCEPT ![Animations[cur]] =
                                            SetRepeat(@, Forever)]]

\* mutant: the repeat count is set and the instance is not replayed
ReplayCountNotReplayed(a, n) == SetRepeat(a, Count(n))

\* set_repeat(RepeatAnimation::Count(n)).replay()
ReplayCount(a, n) == Replay(SetRepeat(a, Count(n)))

\* set_repeat(RepeatAnimation::Forever)
LoopForever(a) == SetRepeat(a, Forever)

\* the key tests of keyboard_animation_control, in source order
KeyOrder ==
    <<"Space", "ArrowUp", "ArrowDown", "ArrowLeft", "ArrowRight", "Enter",
      "Digit1", "Digit3", "Digit5", "KeyL">>

\* the branch of one key test that found its key just pressed
ApplyKey(st, index, key) ==
    CASE key = "Space" -> SetPlaying(st, index, TogglePause(st.active[index]))
      [] key = "ArrowUp" -> SetPlaying(st, index, SetSpeed(st.active[index], SpeedUp))
      [] key = "ArrowDown" -> SetPlaying(st, index, SetSpeed(st.active[index], SlowDown))
      [] key = "ArrowLeft" ->
            SetPlaying(st, index,
                SeekTo(st.active[index], st.active[index].seek_time - SeekStepMicros))
      [] key = "ArrowRight" ->
            SetPlaying(st, index,
                SeekTo(st.active[index], st.active[index].seek_time + SeekStepMicros))
      [] key = "Enter" -> CycleClip(st)
      [] key = "Digit1" -> SetPlaying(st, index, ReplayCount(st.active[index], 1))
      [] key = "Digit3" -> SetPlaying(st, index, ReplayCount(st.active[index], 3))
      [] key = "Digit5" -> SetPlaying(st, index, ReplayCount(st.active[index], 5))
      [] key = "KeyL" -> SetPlaying(st, index, LoopForever(st.active[index]))

\* the body of the loop of keyboard_animation_control for the one entity, after
\* playing_animation_index has been taken: the key tests from the i-th on
RECURSIVE KeyboardBody(_, _, _, _)
KeyboardBody(st, index, keys, i) ==
    IF i > Len(KeyOrder) THEN st
    ELSE KeyboardBody(IF KeyOrder[i] \in keys THEN ApplyKey(st, index, KeyOrder[i]) ELSE st,
                      index, keys, i + 1)

\* mutant: the animation keys are tested with pressed (level) instead of just_pressed
AnimationInputHeld(down, edge) == down

\* keyboard_input.just_pressed(key): the animation keys are tested against the keys
\* that went down in this frame, not against the keys that are down
AnimationInput(down, edge) == edge

\* keyboard_animation_control
KeyboardAnimationControl(p, t, cur, keys) ==
    LET st0 == [active |-> p.active, transitions |-> t, current_animation |-> cur,
                panicked |-> FALSE]
    IN  IF QueryMatches(p, t) /\ HasPlaying(p.active)
        THEN KeyboardBody(st0, FirstPlaying(p.active), keys, 1)
        ELSE st0

----------------------------------------------------------------------------
(* The frame: input and time are sampled, the four Update systems run in   *)
(* an order the schedule picks (main adds them with no ordering between    *)
(* them), then the deferred commands, the scene spawner and the engine's   *)
(* PostUpdate animation systems run.                                       *)

Snapshot ==
    [player |-> player, transitions |-> transitions,
     current_animation |-> current_animation, fox |-> fox, camera |-> camera]

\* setup: the camera behind the origin looking at it, the fox at the identity
\* transform, no scene (and so no AnimationPlayer) yet
InitCamera ==
    [translation |-> PointAt(Vec3Zero,
                             Vec3(R(0), R(CameraOffsetY * MilliPerUnit),
                                  R(CameraOffsetZ * MilliPerUnit))),
     look |-> RVNeg(Vec3(R(0), R(CameraOffsetY * MilliPerUnit),
                         R(CameraOffsetZ * MilliPerUnit)))]
InitFox == [translation |-> Vec3Zero, yaw |-> 0]

Init ==
    /\ frame = 0
    /\ phase = "idle"
    /\ pending = {}
    /\ dt = 0
    /\ pressed = {}
    /\ just_pressed = {}
    /\ player = [exists |-> FALSE, added |-> FALSE, active |-> EmptyMap]
    /\ transitions = NewTransitions
    /\ deferred = <<>>
    /\ current_animation = 0
    /\ fox = InitFox
    /\ fox_entities = 1
    /\ camera = InitCamera
    /\ panicked = FALSE
    /\ pre = [player |-> [exists |-> FALSE, added |-> FALSE, active |-> EmptyMap],
              transitions |-> NewTransitions, current_animation |-> 0,
              fox |-> InitFox, camera |-> InitCamera]
    /\ clock = 0
    /\ enterHist = <<>>
    /\ cycleHist = <<>>
    /\ heldHist = <<>>
    /\ enterHeld = <<>>

\* the speeds an instance can have after k presses of the speed keys
RECURSIVE SpeedsAfter(_)
SpeedsAfter(k) ==
    IF k = 0 THEN {F32One}
    ELSE {F32Mul(s, f) : s \in SpeedsAfter(k - 1), f \in {SpeedUp, SlowDown}}

\* the least number of presses of the speed keys that give the speed
SpeedSteps(speed) ==
    CHOOSE k \in 0 .. MaxSpeedSteps :
        /\ speed \in SpeedsAfter(k)
        /\ \A j \in 0 .. k - 1 : speed \notin SpeedsAfter(j)

\* the speed keys are not pressed once an instance has been adjusted MaxSpeedSteps times
SpeedRoom(J) ==
    \A n \in DOMAIN player.active :
        SpeedSteps(player.active[n].speed) + Cardinality(J \cap {"ArrowUp", "ArrowDown"})
            <= MaxSpeedSteps

\* the sets of keys of Keys with at most MaxAnimKeys animation keys among them
TapSets(Keys) == {P \in SUBSET Keys : Cardinality(P \cap AnimKeys) <= MaxAnimKeys}

\* First/PreUpdate: Time and ButtonInput are updated.  P, one of KeySets, is the set
\* of keys held in this frame.  A key of Holdable that was held in the last frame and
\* still is has stayed down; any other held key went down since the last frame and
\* is just pressed
BeginFrame(KeySets, Holdable, Deltas, maxFrames) ==
    /\ phase = "idle"
    /\ ~panicked
    /\ frame < maxFrames
    /\ \E P \in KeySets, d \in Deltas :
         /\ SpeedRoom(P \ (pressed \cap Holdable))
         /\ pressed' = P
         /\ just_pressed' = P \ (pressed \cap Holdable)
         /\ dt' = d
         /\ clock' = clock + d
         /\ heldHist' = IF frame = 0 \/ heldHist = <<P \cap MoveKeys>>
                         THEN <<P \cap MoveKeys>> ELSE <<>>
         /\ enterHeld' = IF "Enter" \notin P THEN <<>>
                          ELSE IF "Enter" \in pressed \cap Holdable
                          THEN <<enterHeld[1] + 1, enterHeld[2], enterHeld[3]>>
                          ELSE <<1, current_animation,
                                 QueryMatches(player, transitions) /\ HasPlaying(player.active)>>
    /\ frame' = frame + 1
    /\ phase' = "update"
    /\ pending' = Systems
    /\ pre' = Snapshot
    /\ UNCHANGED <<player, transitions, deferred, current_animation, fox, fox_entities,
                   camera, panicked, enterHist, cycleHist>>

Runs(system) ==
    /\ phase = "update"
    /\ ~panicked
    /\ system \in pending
    /\ pending' = pending \ {system}
    /\ UNCHANGED <<frame, phase, dt, pressed, just_pressed, fox_entities, pre, clock,
                   heldHist, enterHeld>>

\* the last NumClips entries of a history with one more entry
Remember(hist, x) ==
    IF Len(hist) < NumClips THEN Append(hist, x) ELSE Append(Tail(hist), x)

RunSetupSceneOnceLoaded ==
    /\ Runs("setup_scene_once_loaded")
    /\ LET r == SetupSceneOnceLoaded(player, deferred)
       IN  /\ player' = r.player
           /\ deferred' = r.deferred
    /\ UNCHANGED <<transitions, current_animation, fox, camera, panicked,
                   enterHist, cycleHist>>

\* mutant: on Enter the controller also puts the character back at its initial
\* transform
RunKeyboardAnimationControlResetsFox ==
    /\ Runs("keyboard_animation_control")
    /\ LET r == KeyboardAnimationControl(player, transitions, current_animation,
                                         just_pressed)
       IN  /\ player' = [player EXCEPT !.active = r.active]
           /\ transitions' = r.transitions
           /\ current_animation' = r.current_animation
           /\ panicked' = r.panicked
    /\ enterHist' = IF "Enter" \in just_pressed
                    THEN Remember(enterHist, current_animation) ELSE enterHist
    /\ cycleHist' = IF "Enter" \in just_pressed /\ QueryMatches(player, transitions)
                       /\ HasPlaying(player.active)
                    THEN Remember(cycleHist, current_animation) ELSE cycleHist
    /\ fox' = IF "Enter" \in just_pressed THEN [translation |-> Vec3Zero, yaw |-> 0] ELSE fox
    /\ UNCHANGED <<deferred, camera>>

RunKeyboardAnimationControl ==
    /\ Runs("keyboard_animation_control")
    /\ LET r == KeyboardAnimationControl(player, transitions, current_animation,
                                         AnimationInput(pressed, just_pressed))
       IN  /\ player' = [player EXCEPT !.active = r.active]
           /\ transitions' = r.transitions
           /\ current_animation' = r.current_animation
           /\ panicked' = r.panicked
    /\ enterHist' = IF "Enter" \in just_pressed
                    THEN Remember(enterHist, current_animation) ELSE enterHist
    /\ cycleHist' = IF "Enter" \in just_pressed /\ QueryMatches(player, transitions)
                       /\ HasPlaying(player.active)
                    THEN Remember(cycleHist, current_animation) ELSE cycleHist
    /\ UNCHANGED <<deferred, fox, camera>>

RunFollowFox ==
    /\ Runs("follow_fox")
    /\ camera' = FollowFox(fox_entities, fox, camera)
    /\ UNCHANGED <<player, transitions, deferred, current_animation, fox, panicked,
                   enterHist, cycleHist>>

RunMoveFox ==
    /\ Runs("move_fox")
    /\ fox' = MoveFox(fox_entities, fox, pressed, dt)
    /\ UNCHANGED <<player, transitions, deferred, current_animation, camera, panicked,
                   enterHist, cycleHist>>

\* the deferred inserts of setup_scene_once_loaded, applied at the end of Update
ApplyDeferred(t, queue) ==
    IF queue = <<>> THEN t ELSE [queue[Len(queue)] EXCEPT !.attached = TRUE]

\* PostUpdate of the animation plugin: advance_transitions, advance_animations,
\* expire_completed_transitions, for a player that has its graph and transitions
PostUpdate(t, active, deltaMs) ==
    IF ~t.attached THEN [transitions |-> t, active |-> active]
    ELSE LET a == AdvanceTransitions(t, active, deltaMs)
             b == AdvanceAnimations(a.active, deltaMs)
         IN  ExpireCompletedTransitions(a.transitions, b)

\* end of the frame; the scene spawner adds the AnimationPlayer once the asset is
\* loaded, which may be in any frame
EndFrame ==
    /\ phase = "update"
    /\ ~panicked
    /\ pending = {}
    /\ \E spawn \in {FALSE, ~player.exists} :
         LET t == ApplyDeferred(transitions, deferred)
             r == PostUpdate(t, player.active, dt)
         IN  /\ transitions' = r.transitions
             /\ player' = [exists |-> player.exists \/ spawn,
                           added |-> player.added \/ spawn,
                           active |-> r.active]
    /\ deferred' = <<>>
    /\ phase' = "idle"
    /\ UNCHANGED <<frame, pending, dt, pressed, just_pressed, current_animation,
                   fox, fox_entities, camera, panicked, pre, clock, enterHist, cycleHist,
                   heldHist, enterHeld>>

UpdateSystems ==
    \/ RunSetupSceneOnceLoaded
    \/ RunKeyboardAnimationControl
    \/ RunFollowFox
    \/ RunMoveFox

MoveDeltas == {500, 1000}
AnimDeltas == {100}

\* the character is steered, no animation key is touched
NextMove ==
    \/ BeginFrame(TapSets(MoveKeys), MoveKeys, MoveDeltas, MaxMoveFrames)
    \/ UpdateSystems
    \/ EndFrame
SpecMove == Init /\ [][NextMove]_vars

\* the movement keys held in the first frame stay held in every later frame, and
\* the frames come at a steady rate of 10, 2 or 1 per second
StrideDeltas == {100, 500, 1000}
NextStride ==
    \/ BeginFrame(IF frame = 0 THEN TapSets(MoveKeys) ELSE {pressed}, MoveKeys,
                  IF frame = 0 THEN StrideDeltas ELSE {dt}, MaxStrideFrames)
    \/ UpdateSystems
    \/ EndFrame
SpecStride == Init /\ [][NextStride]_vars

\* the animation is controlled by key taps once the controller has a clip to
\* command, the character stands
NextAnim ==
    \/ BeginFrame(TapSets(IF QueryMatches(player, transitions) /\ HasPlaying(player.active)
                          THEN AnimKeys ELSE {}),
                  {}, AnimDeltas, MaxAnimFrames)
    \/ UpdateSystems
    \/ EndFrame
SpecAnim == Init /\ [][NextAnim]_vars

\* clips are cycled and paused; in a frame in which the controller has no clip to
\* command, any animation key may be tapped
CycleKeys == {"Enter", "Space"}
CycleDeltas == {100}
NextCycle ==
    \/ BeginFrame(TapSets(IF QueryMatches(player, transitions) /\ HasPlaying(player.active)
                          THEN CycleKeys ELSE AnimKeys),
                  {}, CycleDeltas, MaxCycleFrames)
    \/ UpdateSystems
    \/ EndFrame
SpecCycle == Init /\ [][NextCycle]_vars

\* follow_fox over worlds with any number of Fox entities: the number of entities,
\* the transform of the (first) one and the camera transform are drawn at the start
FollowTranslations ==
    {Vec3Zero, Vec3(F32FromInt(1), F32FromInt(2), F32FromInt(-3))}
FollowYaws == -4 .. 3
FollowCameras == {InitCamera, FollowFoxStep([translation |-> Vec3Zero, yaw |-> 2])}
FollowDeltas == {100}
InitFollow ==
    /\ frame = 0
    /\ phase = "idle"
    /\ pending = {}
    /\ dt = 0
    /\ pressed = {}
    /\ just_pressed = {}
    /\ player = [exists |-> FALSE, added |-> FALSE, active |-> EmptyMap]
    /\ transitions = NewTransitions
    /\ deferred = <<>>
    /\ current_animation = 0
    /\ fox_entities \in 0 .. MaxFoxes
    /\ fox \in [translation : FollowTranslations, yaw : FollowYaws]
    /\ camera \in FollowCameras
    /\ panicked = FALSE
    /\ pre = [player |-> player, transitions |-> transitions,
              current_animation |-> current_animation, fox |-> fox, camera |-> camera]
    /\ clock = 0
    /\ enterHist = <<>>
    /\ cycleHist = <<>>
    /\ heldHist = <<>>
    /\ enterHeld = <<>>
NextFollow ==
    \/ BeginFrame(TapSets({"KeyW"}), {"KeyW"}, FollowDeltas, MaxFollowFrames)
    \/ UpdateSystems
    \/ EndFrame
SpecFollow == InitFollow /\ [][NextFollow]_vars

\* Enter and W may be held down over several frames
HoldKeys == {"Enter", "KeyW"}
HoldDeltas == {100}
NextHold ==
    \/ BeginFrame(TapSets(HoldKeys), HoldKeys, HoldDeltas, MaxHoldFrames)
    \/ UpdateSystems
    \/ EndFrame
SpecHold == Init /\ [][NextHold]_vars

\* the speed keys are tapped, once the controller has a clip to command
SpeedKeys == {"ArrowUp", "ArrowDown"}
SpeedDeltas == {100}
NextSpeed ==
    \/ BeginFrame(TapSets(IF QueryMatches(player, transitions) /\ HasPlaying(player.active)
                          THEN SpeedKeys ELSE {}),
                  {}, SpeedDeltas, MaxSpeedFrames)
    \/ UpdateSystems
    \/ EndFrame
SpecSpeed == Init /\ [][NextSpeed]_vars

\* several animation keys go down in the same frame, once the controller has a clip
\* to command
Chords ==
    {{}, {"Enter"}, {"Space", "Enter"}, {"ArrowRight", "Digit5"},
     {"Enter", "Digit1"}, {"Enter", "Digit3"}, {"Enter", "Digit5"},
     {"Digit1", "Digit3", "Digit5", "KeyL"}}
ChordDeltas == {100}
NextChord ==
    \/ BeginFrame(IF QueryMatches(player, transitions) /\ HasPlaying(player.active)
                  THEN Chords ELSE {{}},
                  {}, ChordDeltas, MaxChordFrames)
    \/ UpdateSystems
    \/ EndFrame
SpecChord == Init /\ [][NextChord]_vars

----------------------------------------------------------------------------
(* Properties *)

Ran(system) == phase = "update" /\ system \notin pending
EndOfUpdate == phase = "update" /\ pending = {}
Second == 10 * 100      \* one second of frame deltas, ms

\* C1 (as claimed): at the end of every frame's Update the camera sits at the offset
\* computed from the character's transform as move_fox left it in that same frame,
\* whatever order the schedule ran the systems in.
C1_CameraFollowsSameFrame ==
    EndOfUpdate => camera.translation = FollowFoxStep(fox).translation

\* C7: when exactly an opposite pair of movement keys (W+S, A+D, or both pairs) is
\* held, move_fox leaves the character's position and orientation as they were at
\* the beginning of the frame, for every frame delta and prior transform.
OppositePairs == {{"KeyW", "KeyS"}, {"KeyA", "KeyD"}, MoveKeys}
C7_OppositeKeysIdle ==
    (Ran("move_fox") /\ pressed \cap MoveKeys \in OppositePairs) => fox = pre.fox

C7_Witness ==
    /\ Ran("move_fox")
    /\ pressed \in OppositePairs
    /\ pre.fox.translation # Vec3Zero
    /\ pre.fox.yaw # 0
    /\ fox = pre.fox

\* the vector move_fox adds to the position: direction * speed * delta
Stride(keys, delta) ==
    VScale(VScale(Direction(keys), F32FromInt(MoveSpeed)), DeltaSeconds(delta))
Diagonal(d) == d[1] # F32Zero /\ d[3] # F32Zero

\* C8 (as claimed): for every held key combination with a non-zero net direction
\* the direction moved along has unit length and one step displaces the character
\* by exactly speed * delta; W+A held from the start for 1.0 s puts the character at
\* distance 5.0 (squared distance 25) from the origin, on the bisector of -Z and -X.
C8_UnitDirection ==
    /\ (Ran("move_fox") /\ RawDirection(pressed) # Vec3Zero) =>
          LET stride == Stride(pressed, dt)
          IN  /\ Length(Direction(pressed)) = F32One
              /\ Length(stride) = F32Times(F32FromInt(MoveSpeed), DeltaSeconds(dt))
              /\ fox.translation = VAdd(pre.fox.translation, stride)
    /\ (Ran("move_fox") /\ heldHist = <<{"KeyW", "KeyA"}>> /\ clock = Second) =>
          /\ fox.translation[1] = fox.translation[3]
          /\ fox.translation[1][1] < 0
          /\ Length(fox.translation) = F32FromInt(MoveSpeed)
          /\ Dot(fox.translation, fox.translation) = F32FromInt(MoveSpeed * MoveSpeed)

\* C8 (amended): the direction moved along has unit length up to single-precision
\* rounding: exactly 1 for the four axis-aligned directions, within one unit in the
\* last place of 1 for the four diagonals; one step displaces the character by
\* speed * delta within two units in the last place, diagonal or not; W+A held from
\* the start for 1.0 s puts the character exactly on the bisector of -Z and -X, at a
\* distance within two units in the last place of 5.0 (not 5 * sqrt 2).
C8_UnitWithinRounding ==
    /\ (Ran("move_fox") /\ RawDirection(pressed) # Vec3Zero) =>
          LET length == Length(Direction(pressed))
              stride == Stride(pressed, dt)
          IN  /\ F32Ulps(length, F32One) <= 1
              /\ ~Diagonal(RawDirection(pressed)) => length = F32One
              /\ F32Ulps(Length(stride),
                         F32Times(F32FromInt(MoveSpeed), DeltaSeconds(dt))) <= 2
              /\ fox.translation = VAdd(pre.fox.translation, stride)
    /\ (Ran("move_fox") /\ heldHist = <<{"KeyW", "KeyA"}>> /\ clock = Second) =>
          /\ fox.translation[1] = fox.translation[3]
          /\ fox.translation[1][1] < 0
          /\ F32Ulps(Length(fox.translation), F32FromInt(MoveSpeed)) <= 2

C8_Witness ==
    /\ Ran("move_fox")
    /\ heldHist = <<{"KeyW", "KeyA"}>>
    /\ clock = Second
    /\ frame = 10
    /\ Length(Direction(pressed)) # F32One
    /\ fox.translation[1] = fox.translation[3]
    /\ F32Ulps(Length(fox.translation), F32FromInt(MoveSpeed)) = 2

\* the single-precision number nearest to an exact a + b * (sqrt 2)/2 with a or b zero
SqrtHalf == F32Div(F32One, F32Sqrt(F32FromInt(2)))
RToF32(p) == IF p[2] = 0 THEN F32FromInt(p[1]) ELSE F32Times(F32FromInt(p[2]), SqrtHalf)
VToF32(u) == <<RToF32(u[1]), RToF32(u[2]), RToF32(u[3])>>

\* C9 (as claimed): after a step with a non-zero direction d the character's forward
\* axis, the canonical forward vector Z rotated by the new orientation, equals d.
C9_FacesMovement ==
    (Ran("move_fox") /\ Direction(pressed) # Vec3Zero) =>
        VToF32(Forward(fox.yaw)) = Direction(pressed)

----------------------------------------------------------------------------
(* Properties of the Animation Controller *)

KeyboardRan == Ran("keyboard_animation_control")
SetupRan == Ran("setup_scene_once_loaded")
DigitKeys == {"Digit1", "Digit3", "Digit5"}

\* at the beginning of the frame the entity had player and transition state and a
\* clip was active, so that the controller acts on the frame's keys
PreCommandable ==
    pre.player.exists /\ pre.transitions.attached /\ DOMAIN pre.player.active # {}

\* the clip instance the controller selects in this frame
PreTarget == CHOOSE n \in DOMAIN pre.player.active :
                 \A m \in DOMAIN pre.player.active : n <= m

\* the playback state the systems other than keyboard_animation_control leave in
\* this frame: that of the frame's beginning, or, in the frame the player is first
\* seen, with clip 0 started
PlaybackUntouched ==
    /\ transitions = pre.transitions
    /\ current_animation = pre.current_animation
    /\ \/ player.active = pre.player.active
       \/ /\ pre.player.added
          /\ SetupRan
          /\ player.active = SetupSceneOnceLoaded(pre.player, <<>>).player.active

\* C2: keyboard_animation_control is a silent no-op on the playback state and on
\* CurrentAnimationIndex whenever the entity has no animation player, no transition
\* state or no active clip, whatever keys are pressed; and no system ever fails the
\* frame (no unwrap of a missing instance, no clip index outside the AnimationSet).
C2_SilentNoOp ==
    /\ ~panicked
    /\ current_animation \in DOMAIN Animations
    /\ (KeyboardRan /\ ~PreCommandable) => PlaybackUntouched

C2_Witness ==
    /\ KeyboardRan
    /\ SetupRan
    /\ "Enter" \in just_pressed
    /\ pre.player.added
    /\ ~transitions.attached
    /\ DOMAIN player.active = {Animations[0]}
    /\ current_animation = 0
    /\ PlaybackUntouched

\* C3 (as claimed): from any reachable state every Enter press advances
\* CurrentAnimationIndex by exactly 1 modulo N, and the N-th press in a row of Enter
\* presses brings it back to the value it had before the first.
C3_EveryEnterCycles ==
    (KeyboardRan /\ "Enter" \in just_pressed) =>
        /\ current_animation = (pre.current_animation + 1) % NumClips
        /\ Len(enterHist) = NumClips => current_animation = enterHist[1]

\* C3 (amended): an Enter press in a frame in which the entity has player and
\* transition state and an active clip advances CurrentAnimationIndex by exactly 1
\* modulo N, and N such presses bring it back to its starting value; an Enter press
\* in any other frame leaves the index unchanged.
C3_CycleWraps ==
    (KeyboardRan /\ "Enter" \in just_pressed) =>
        /\ PreCommandable =>
              /\ current_animation = (pre.current_animation + 1) % NumClips
              /\ Len(cycleHist) = NumClips => current_animation = cycleHist[1]
        /\ ~PreCommandable => current_animation = pre.current_animation

C3_Witness ==
    /\ KeyboardRan
    /\ "Enter" \in just_pressed
    /\ PreCommandable
    /\ Len(cycleHist) = NumClips
    /\ current_animation = cycleHist[1]
    /\ current_animation = pre.current_animation + 1 - NumClips

\* C4: a frame's 1, 3 or 5 key leaves the selected clip instance at elapsed time 0,
\* whether it was paused or playing and whatever its elapsed time was; the L key
\* changes nothing but the repeat policy, and resets no instance's elapsed time.
C4_CountRestartsForeverDoesNot ==
    (KeyboardRan /\ PreCommandable) =>
        /\ just_pressed \cap DigitKeys # {} =>
              player.active[PreTarget].seek_time = 0
        /\ just_pressed = {"KeyL"} =>
              /\ player.active = [pre.player.active EXCEPT ![PreTarget].repeat = Forever]
              /\ transitions = pre.transitions
        /\ ("KeyL" \in just_pressed
              /\ just_pressed \cap (DigitKeys \cup {"ArrowLeft", "ArrowRight", "Enter"}) = {}) =>
              \A n \in DOMAIN pre.player.active :
                  player.active[n].seek_time = pre.player.active[n].seek_time

C4_Witness ==
    /\ KeyboardRan
    /\ PreCommandable
    /\ "Digit3" \in just_pressed
    /\ pre.player.active[PreTarget].paused
    /\ pre.player.active[PreTarget].seek_time > 0
    /\ player.active[PreTarget].seek_time = 0
    /\ player.active[PreTarget].repeat = Count(3)

\* C5 (as claimed): after a frame's 1, 3 or 5 key the selected clip instance is
\* playing, not paused, whatever its pause state was before.
C5_ReplayResumes ==
    (KeyboardRan /\ PreCommandable /\ just_pressed \cap DigitKeys # {}) =>
        ~player.active[PreTarget].paused

\* C6: a run of setup_scene_once_loaded for an entity whose transition state is
\* already attached changes nothing: neither the player and its clip instances,
\* nor the transition state, and it queues no command.
SetupStep ==
    /\ phase = "update"
    /\ "setup_scene_once_loaded" \in pending
    /\ "setup_scene_once_loaded" \notin pending'
C6_SetupIdempotent ==
    [][(SetupStep /\ transitions.attached) =>
          /\ player' = player
          /\ transitions' = transitions
          /\ deferred' = deferred
          /\ deferred = <<>>]_vars

C6_Witness ==
    /\ SetupRan
    /\ "keyboard_animation_control" \in pending
    /\ pre.transitions.attached
    /\ pre.player.active[PreTarget].paused
    /\ pre.player.active[PreTarget].seek_time > 0
    /\ player = pre.player
    /\ transitions = pre.transitions
    /\ deferred = <<>>

----------------------------------------------------------------------------
(* Properties of the Follow Camera Controller *)

FollowStep ==
    /\ phase = "update"
    /\ "follow_fox" \in pending
    /\ "follow_fox" \notin pending'

\* C11: when the number of entities carrying the Fox marker is not exactly one
\* (none, or more than one), a run of follow_fox leaves the camera's position and
\* orientation as they were, and so they stay as they were when the frame began.
C11_NoSingleTargetSkips ==
    /\ [][(FollowStep /\ fox_entities # 1) => camera' = camera]_vars
    /\ [](fox_entities # 1 => camera = pre.camera)

C11_Witness ==
    /\ Ran("follow_fox")
    /\ Ran("move_fox")
    /\ fox_entities = 2
    /\ frame = 2
    /\ camera = pre.camera
    /\ camera # FollowFoxStep(fox)

\* C12: every run of follow_fox with a target leaves the camera behind and above the
\* target relative to its current facing: horizontally at the target's position
\* displaced 300 units against the target's forward axis (a unit vector), at height
\* target.y + 200, aimed at the target; the result is a function of the target's
\* transform at that moment alone, whatever the camera's transform was before.
C12_BehindAndAbove ==
    [][(FollowStep /\ fox_entities = 1) =>
          /\ LengthSquared2(Forward(fox.yaw)) = R(2)
          /\ camera'.translation.at = fox.translation
          /\ camera'.translation.offset[1] =
                RNeg(RScale(Forward(fox.yaw)[1], (0 - CameraOffsetZ) * MilliPerUnit))
          /\ camera'.translation.offset[3] =
                RNeg(RScale(Forward(fox.yaw)[3], (0 - CameraOffsetZ) * MilliPerUnit))
          /\ camera'.translation.offset[2] = R(CameraOffsetY * MilliPerUnit)
          /\ camera'.look = RVNeg(camera'.translation.offset)]_vars

C12_Witness ==
    /\ Ran("follow_fox")
    /\ "move_fox" \in pending
    /\ fox_entities = 1
    /\ fox.yaw % 2 = 1
    /\ fox.translation # Vec3Zero
    /\ pre.camera # InitCamera
    /\ camera.translation # pre.camera.translation
    /\ camera.translation.at = fox.translation
    /\ camera.translation.offset[1] =
          RNeg(RScale(Forward(fox.yaw)[1], (0 - CameraOffsetZ) * MilliPerUnit))
    /\ camera.translation.offset[2] = R(CameraOffsetY * MilliPerUnit)

----------------------------------------------------------------------------
(* Properties of the Animation Controller during a cross-fade and under several keys *)

\* at the beginning of the frame a cross-fade was in flight: the main (incoming) clip
\* of the transition state and an outgoing clip of its list were both active
PreCrossfade ==
    /\ PreCommandable
    /\ pre.transitions.main \in DOMAIN pre.player.active
    /\ \E i \in 1 .. Len(pre.transitions.list) :
          pre.transitions.list[i].animation
              \in DOMAIN pre.player.active \ {pre.transitions.main}

\* the keys whose command is applied to one clip instance
InstanceKeys == AnimKeys \ {"Enter"}

\* C13 (as claimed): in a frame that begins with a cross-fade in flight, the pause,
\* speed, seek and repeat keys act on the incoming clip instance, the one most
\* recently started by the transition, and leave every other instance as it was;
\* the Space key flips that instance between paused and playing.
C13_CrossfadeTargetsIncoming ==
    (KeyboardRan /\ PreCrossfade /\ just_pressed # {} /\ just_pressed \subseteq InstanceKeys) =>
        /\ \A n \in DOMAIN pre.player.active \ {pre.transitions.main} :
              n \in DOMAIN player.active /\ player.active[n] = pre.player.active[n]
        /\ "Space" \in just_pressed =>
              player.active[pre.transitions.main].paused
                  = ~pre.player.active[pre.transitions.main].paused

\* speed-up then slow-down, and slow-down then speed-up, of an instance
UpThenDown(a) == SetSpeed(SetSpeed(a, SpeedUp), SlowDown).speed
DownThenUp(a) == SetSpeed(SetSpeed(a, SlowDown), SpeedUp).speed

\* a frame's single speed key multiplies the selected instance's speed by its factor
\* and never runs into a clamp: up raises the speed, down lowers it
SpeedKeyMultiplies ==
    (KeyboardRan /\ PreCommandable) =>
        /\ just_pressed = {"ArrowUp"} =>
              /\ player.active[PreTarget].speed
                    = F32Mul(pre.player.active[PreTarget].speed, SpeedUp)
              /\ F32Less(pre.player.active[PreTarget].speed,
                         player.active[PreTarget].speed)
        /\ just_pressed = {"ArrowDown"} =>
              /\ player.active[PreTarget].speed
                    = F32Mul(pre.player.active[PreTarget].speed, SlowDown)
              /\ F32Less(player.active[PreTarget].speed,
                         pre.player.active[PreTarget].speed)

\* C14 (as claimed): speed-up followed by slow-down gives every clip instance
\* exactly the speed that slow-down followed by speed-up gives it, the original
\* times 1.2 times 0.8, and no adjustment is clamped.
C14_SpeedOrderExact ==
    /\ SpeedKeyMultiplies
    /\ \A n \in DOMAIN player.active :
          UpThenDown(player.active[n]) = DownThenUp(player.active[n])

\* C14 (amended): each speed key multiplies the speed by its factor in single
\* precision, with no clamp; speed-up followed by slow-down and slow-down followed by
\* speed-up agree to within one unit in the last place, not always bit for bit, and
\* either is within two units in the last place of the original times 24/25.
C14_SpeedOrderWithinRounding ==
    /\ SpeedKeyMultiplies
    /\ \A n \in DOMAIN player.active :
          LET ud == UpThenDown(player.active[n])
              du == DownThenUp(player.active[n])
              s == player.active[n].speed
          IN  /\ F32Ulps(ud, du) <= 1
              /\ ud[2] - s[2] \in {-1, 0}
              /\ Abs(25 * ud[1] * 2^(ud[2] - s[2] + 1) - 48 * s[1])
                    <= 2 * 25 * 2^(ud[2] - s[2] + 1)

C14_Witness ==
    /\ KeyboardRan
    /\ PreCommandable
    /\ just_pressed = {"ArrowDown"}
    /\ pre.player.active[PreTarget].speed = SlowDown
    /\ player.active[PreTarget].speed = F32Mul(SlowDown, SlowDown)
    /\ F32Ulps(UpThenDown(player.active[PreTarget]),
               DownThenUp(player.active[PreTarget])) = 1

\* W is acted on in every frame it is down: each such frame moves the character by
\* speed * delta along -Z, and W down in all k frames so far has moved it by
\* speed * (sum of the deltas)
MovementIsLevelTriggered ==
    /\ (Ran("move_fox") /\ "KeyW" \in pressed) =>
          fox.translation =
              VAdd(pre.fox.translation,
                   Vec3(F32Zero, F32Zero,
                        F32Times(F32FromInt(0 - MoveSpeed), DeltaSeconds(dt))))
    /\ (Ran("move_fox") /\ heldHist = <<{"KeyW"}>>) =>
          fox.translation =
              Vec3(F32Zero, F32Zero,
                   F32Div(F32FromInt(0 - MoveSpeed * clock), F32FromInt(Second)))

\* in a frame in which Enter is down but went down in an earlier frame the
\* controller leaves CurrentAnimationIndex and the main clip alone
HeldEnterIsIgnored ==
    (KeyboardRan /\ "Enter" \in pressed \ just_pressed) =>
        /\ current_animation = pre.current_animation
        /\ transitions.main = pre.transitions.main

\* C15 (as claimed): animation commands are edge-triggered, movement is
\* level-triggered.  Enter down for k frames in a row applies its command exactly
\* once, on the frame of the press: CurrentAnimationIndex has advanced by 1 modulo N,
\* not by k.  W down for k frames moves the character in each of the k frames.
C15_HeldEnterOnce ==
    /\ HeldEnterIsIgnored
    /\ (KeyboardRan /\ enterHeld # <<>>) =>
          current_animation = (enterHeld[2] + 1) % NumClips
    /\ MovementIsLevelTriggered

\* C15 (amended): animation commands are edge-triggered, movement is
\* level-triggered.  Enter down for k frames in a row is acted on in the frame of the
\* press only: if the controller had a clip to command in that frame,
\* CurrentAnimationIndex has advanced by 1 modulo N, not by k; if it had none (the
\* scene was not loaded yet), the index has not advanced at all, however long the key
\* stays down.  W down for k frames moves the character in each of the k frames.
C15_EdgeVersusLevel ==
    /\ HeldEnterIsIgnored
    /\ (KeyboardRan /\ enterHeld # <<>>) =>
          /\ enterHeld[3] => current_animation = (enterHeld[2] + 1) % NumClips
          /\ ~enterHeld[3] => current_animation = enterHeld[2]
    /\ MovementIsLevelTriggered

C15_Witness ==
    /\ KeyboardRan
    /\ Ran("move_fox")
    /\ enterHeld # <<>>
    /\ enterHeld[1] = 3
    /\ enterHeld[3]
    /\ "Enter" \notin just_pressed
    /\ current_animation = enterHeld[2] + 1
    /\ heldHist = <<{"KeyW"}>>
    /\ frame = 5
    /\ fox.translation =
          Vec3(F32Zero, F32Zero,
               F32Div(F32FromInt(0 - MoveSpeed * 5 * 100), F32FromInt(Second)))

----------------------------------------------------------------------------
(* Independence of the Animation Controller from the other controllers *)

KeyboardStep ==
    /\ phase = "update"
    /\ "keyboard_animation_control" \in pending
    /\ "keyboard_animation_control" \notin pending'
MoveStep ==
    /\ phase = "update"
    /\ "move_fox" \in pending
    /\ "move_fox" \notin pending'

\* the playback state and clip index keyboard_animation_control leaves in this
\* frame, computed from the state at the beginning of the frame and the frame's keys
PlaybackAsCommanded ==
    IF PreCommandable
    THEN LET r == KeyboardAnimationControl(pre.player, pre.transitions,
                                           pre.current_animation, just_pressed)
         IN  /\ player.active = r.active
             /\ transitions = r.transitions
             /\ current_animation = r.current_animation
    ELSE PlaybackUntouched

\* C16: the order in which keyboard_animation_control runs among move_fox and
\* follow_fox does not show in the state at the end of Update.  No system changes the
\* input or the frame delta; the animation controller's step leaves the transforms
\* of character and camera alone; the steps of move_fox and follow_fox leave the
\* playback state, the queued commands and CurrentAnimationIndex alone; hence, once
\* it has run, the playback state is the one commanded from the frame's beginning
\* state and keys, the character's transform is the one move_fox computes from the
\* frame's beginning, and the camera's is the one follow_fox computes from the
\* character's transform before or after move_fox, wherever the animation
\* controller ran.
C16_AnimationOrderFree ==
    /\ [][(phase = "update" /\ phase' = "update") =>
             (pressed' = pressed /\ just_pressed' = just_pressed /\ dt' = dt)]_vars
    /\ [][KeyboardStep => (fox' = fox /\ camera' = camera
                            /\ fox_entities' = fox_entities)]_vars
    /\ [][(MoveStep \/ FollowStep) =>
             (player' = player /\ transitions' = transitions /\ deferred' = deferred
              /\ current_animation' = current_animation)]_vars
    /\ [](KeyboardRan => PlaybackAsCommanded)
    /\ []((phase = "update" /\ ~KeyboardRan) => PlaybackUntouched)
    /\ [](Ran("move_fox") => fox = MoveFox(fox_entities, pre.fox, pressed, dt))
    /\ [](Ran("follow_fox") =>
             camera \in {FollowFox(fox_entities, pre.fox, pre.camera),
                         FollowFox(fox_entities,
                                   MoveFox(fox_entities, pre.fox, pressed, dt),
                                   pre.camera)})

C16_Witness ==
    /\ EndOfUpdate
    /\ PreCommandable
    /\ "Enter" \in just_pressed
    /\ "KeyW" \in pressed
    /\ current_animation = (pre.current_animation + 1) % NumClips
    /\ transitions.main # pre.transitions.main
    /\ fox # pre.fox
    /\ camera # pre.camera
    /\ PlaybackAsCommanded

----------------------------------------------------------------------------
(* Clip index and started clip *)

\* C17: in every reachable state 0 <= CurrentAnimationIndex < N, N the number of
\* clips of the AnimationSet, so that neither animations[*current_animation] in the
\* Enter branch nor animations[0] in setup_scene_once_loaded indexes outside the set,
\* and no frame fails on such a lookup.
C17_IndexInRange ==
    /\ current_animation \in 0 .. NumClips - 1
    /\ DOMAIN Animations = 0 .. NumClips - 1
    /\ 0 \in DOMAIN Animations
    /\ NextAnimationIndex(current_animation) \in DOMAIN Animations
    /\ ~panicked

C17_Witness ==
    /\ KeyboardRan
    /\ "Enter" \in just_pressed
    /\ pre.current_animation = NumClips - 1
    /\ current_animation = 0
    /\ transitions.main = Animations[0]
    /\ ~panicked

\* C18: once setup_scene_once_loaded has started clip 0 for the player, the main
\* (most recently started) clip of the transition state, attached or still queued
\* for insertion, is the clip of the AnimationSet at CurrentAnimationIndex: setup
\* establishes index 0 with clip 0, and every Enter the controller acts on moves the
\* index and the started clip together.
C18_IndexMatchesMainClip ==
    /\ transitions.attached => transitions.main = Animations[current_animation]
    /\ \A i \in 1 .. Len(deferred) : deferred[i].main = Animations[current_animation]
    /\ (SetupRan /\ pre.player.added) =>
          /\ current_animation = 0
          /\ Len(deferred) = 1
          /\ deferred[1].main = Animations[0]
          /\ Animations[0] \in DOMAIN player.active
    /\ (KeyboardRan /\ PreCommandable /\ "Enter" \in just_pressed) =>
          /\ transitions.main = Animations[current_animation]
          /\ transitions.main \in DOMAIN player.active
          /\ transitions.main # pre.transitions.main

C18_Witness ==
    /\ KeyboardRan
    /\ PreCommandable
    /\ "Enter" \in just_pressed
    /\ pre.current_animation = 1
    /\ current_animation = 2
    /\ pre.transitions.main = Animations[1]
    /\ transitions.main = Animations[2]
    /\ Len(transitions.list) = 2

----------------------------------------------------------------------------
(* Several animation keys in one frame *)

\* the clip an Enter of this frame cycles to
CycledTo == Animations[(pre.current_animation + 1) % NumClips]

DigitCount(key) ==
    CASE key = "Digit1" -> 1
      [] key = "Digit3" -> 3
      [] key = "Digit5" -> 5

\* the keys of a frame are acted on in the order pause, speed-up, slow-down,
\* seek-back, seek-forward, cycle, repeat 1, 3, 5, repeat-forever, and every command
\* on an instance goes to the instance selected when the controller began: no other
\* instance changes, except the one an Enter starts; seek-forward with 5 ends at
\* elapsed time 0 with count 5; 1+3+5+L end with policy Forever at elapsed time 0;
\* Space with Enter flips the selected instance's pause flag
ChordInOrderOnSelected ==
    (KeyboardRan /\ PreCommandable) =>
        /\ "Enter" \notin just_pressed =>
              /\ DOMAIN player.active = DOMAIN pre.player.active
              /\ \A n \in DOMAIN pre.player.active \ {PreTarget} :
                    player.active[n] = pre.player.active[n]
              /\ transitions = pre.transitions
        /\ "Enter" \in just_pressed =>
              /\ transitions.main = CycledTo
              /\ \A n \in DOMAIN pre.player.active \ {PreTarget, CycledTo} :
                    player.active[n] = pre.player.active[n]
        /\ just_pressed = DigitKeys \cup {"KeyL"} =>
              /\ player.active[PreTarget].repeat = Forever
              /\ player.active[PreTarget].seek_time = 0
        /\ just_pressed = {"ArrowRight", "Digit5"} =>
              /\ player.active[PreTarget].repeat = Count(5)
              /\ player.active[PreTarget].seek_time = 0
        /\ just_pressed = {"Space", "Enter"} =>
              player.active[PreTarget].paused = ~pre.player.active[PreTarget].paused
        /\ \A d \in DigitKeys : just_pressed = {"Enter", d} =>
              /\ player.active[PreTarget].repeat = Count(DigitCount(d))
              /\ player.active[PreTarget].seek_time = 0

\* C19 (as claimed): the keys of a frame are applied in the fixed order and to the
\* instance selected at the start; so Enter with a digit key sets the count and
\* replays a previously playing clip, never the clip just cycled to, which loops
\* forever; and 1+3+5+L leave the policy Forever with elapsed time 0.
C19_DigitNeverOnCycledClip ==
    /\ ChordInOrderOnSelected
    /\ (KeyboardRan /\ PreCommandable) =>
          \A d \in DigitKeys : just_pressed = {"Enter", d} =>
              /\ CycledTo # PreTarget
              /\ player.active[CycledTo].repeat = Forever

====
